---------------------------- MODULE Spec2Model ----------------------------
(***************************************************************************)
(* Batch PDF invoice extractor (src/app.py) and the single-document        *)
(* extractor (src/extractor.py).                                           *)
(*                                                                         *)
(* Text is a TLA+ string; a character is a string of length 1.  Positions  *)
(* are offsets: position p lies between character p and character p+1.     *)
(* The module's strings are ASCII: "@" stands for the rupee sign U+20B9    *)
(* and "~" for the ellipsis U+2026, neither of which any pattern of the    *)
(* source confuses with another character.                                 *)
(***************************************************************************)
EXTENDS Integers, Sequences, FiniteSets, TLC

(***************************************************************************)
(* Characters and Python's str methods                                     *)
(***************************************************************************)
CharAt(s, i) == SubSeq(s, i, i)

StrSet(s) == {CharAt(s, i) : i \in 1..Len(s)}

UpperStr == "ABCDEFGHIJKLMNOPQRSTUVWXYZ"

LowerStr == "abcdefghijklmnopqrstuvwxyz"

Digits == StrSet("0123456789")

UpperSet == StrSet(UpperStr)

LowerSet == StrSet(LowerStr)

Letters == UpperSet \cup LowerSet

\* \w of the re module, on ASCII text
WordChars == Letters \cup Digits \cup {"_"}

\* \s of the re module, and what str.strip() and str.split() remove
Space == {" ", "\t", "\n", "\r", "\f"}

\* the line boundaries of str.splitlines() ("\r\n" counts as one)
LineBreaks == {"\n", "\r", "\f"}

Rupee == "@"

Ellipsis == "~"

LowerChar(c) ==
    IF c \in UpperSet
    THEN CharAt(LowerStr, CHOOSE i \in 1..Len(UpperStr) : CharAt(UpperStr, i) = c)
    ELSE c

UpperChar(c) ==
    IF c \in LowerSet
    THEN CharAt(UpperStr, CHOOSE i \in 1..Len(LowerStr) : CharAt(LowerStr, i) = c)
    ELSE c

RECURSIVE MapChars(_, _, _)
\* the characters s[i..j], each replaced by F of it (halving keeps the
\* evaluation shallow)
MapChars(F(_), s, ij) ==
    IF ij[1] > ij[2] THEN ""
    ELSE IF ij[1] = ij[2] THEN F(CharAt(s, ij[1]))
    ELSE LET mid == (ij[1] + ij[2]) \div 2
         IN  MapChars(F, s, <<ij[1], mid>>) \o MapChars(F, s, <<mid + 1, ij[2]>>)

\* str.lower()
Lower(s) == MapChars(LowerChar, s, <<1, Len(s)>>)

\* str.strip()
Strip(s) ==
    LET keep == {i \in 1..Len(s) : CharAt(s, i) \notin Space}
    IN  IF keep = {} THEN ""
        ELSE SubSeq(s, CHOOSE i \in keep : \A j \in keep : i <= j,
                       CHOOSE i \in keep : \A j \in keep : i >= j)

DropSpace(c) == IF c \in Space THEN "" ELSE c

\* "".join(s.split())
RemoveSpaces(s) == MapChars(DropSpace, s, <<1, Len(s)>>)

\* sub in s
Contains(sub, s) ==
    \E i \in 0..(Len(s) - Len(sub)) : SubSeq(s, i + 1, i + Len(sub)) = sub

RECURSIVE Join(_, _)
\* sep.join(parts)
Join(parts, sep) ==
    IF parts = <<>> THEN ""
    ELSE IF Len(parts) = 1 THEN parts[1]
    ELSE parts[1] \o sep \o Join(Tail(parts), sep)

\* the k-th smallest element of a set of numbers
Kth(set, k) == CHOOSE v \in set : Cardinality({w \in set : w < v}) = k - 1

\* str.splitlines(): a line ends at a line boundary ("\r\n" is one boundary)
\* or at the end of the text; no empty last line
SplitLines(s) ==
    LET ends == {i \in 1..Len(s) :
                    /\ CharAt(s, i) \in LineBreaks
                    /\ ~(CharAt(s, i) = "\r" /\ i < Len(s) /\ CharAt(s, i + 1) = "\n")}
        n == Cardinality(ends)
        from(k) == IF k = 1 THEN 1 ELSE Kth(ends, k - 1) + 1
        to(k) == LET e == Kth(ends, k)
                 IN  IF CharAt(s, e) = "\n" /\ e > 1 /\ CharAt(s, e - 1) = "\r"
                     THEN e - 2 ELSE e - 1
        whole == [k \in 1..n |-> SubSeq(s, from(k), to(k))]
    IN  IF from(n + 1) <= Len(s)
        THEN Append(whole, SubSeq(s, from(n + 1), Len(s)))
        ELSE whole

\* seq[:n]
Take(seq, n) == SubSeq(seq, 1, IF Len(seq) < n THEN Len(seq) ELSE n)

\* name.rsplit(".", 1)[0]
RSplitDot(name) ==
    IF \E i \in 1..Len(name) : CharAt(name, i) = "."
    THEN LET last == CHOOSE i \in 1..Len(name) :
                        /\ CharAt(name, i) = "."
                        /\ \A j \in (i + 1)..Len(name) : CharAt(name, j) # "."
         IN  SubSeq(name, 1, last - 1)
    ELSE name

(***************************************************************************)
(* The re module: a backtracking matcher.  A pattern is a tree of nodes;   *)
(* Match carries the nodes still to be matched, so the first alternative   *)
(* and the longest repetition are tried first and given up only when the   *)
(* rest of the pattern fails, as re does.                                  *)
(***************************************************************************)
\* [...] and a single character
Ch(S) == [t |-> "set", neg |-> FALSE, s |-> S]

\* [^...]
NotCh(S) == [t |-> "set", neg |-> TRUE, s |-> S]

\* . (without re.DOTALL)
Dot == NotCh({"\n"})

\* a string of literal characters
Lit(str) == [t |-> "lit", s |-> str]

Cat(xs) == [t |-> "seq", xs |-> xs]

\* a|b|...
Alt(xs) == [t |-> "alt", xs |-> xs]

\* x{min,max}, greedy; max = -1 is no upper limit
Rep(x, min, max) == [t |-> "rep", x |-> x, min |-> min, max |-> max]

Star(x) == Rep(x, 0, -1)

Plus(x) == Rep(x, 1, -1)

Opt(x) == Rep(x, 0, 1)

\* capturing group number n
Grp(n, x) == [t |-> "grp", n |-> n, x |-> x]

\* \b
WB == [t |-> "wb"]

\* no pattern of the source has more than three groups
NoCaps == [g \in 1..3 |-> <<-1, -1>>]

\* the outcome of a failed match (None)
NoMatch == [ok |-> FALSE, start |-> 0, end |-> 0, caps |-> NoCaps]

IsWordAt(text, i) == i >= 1 /\ i <= Len(text) /\ CharAt(text, i) \in WordChars

AtWordBoundary(text, pos) == IsWordAt(text, pos) # IsWordAt(text, pos + 1)

CharMatches(node, c, ic) ==
    LET in == \/ c \in node.s
              \/ ic /\ (LowerChar(c) \in node.s \/ UpperChar(c) \in node.s)
    IN  IF node.neg THEN ~in ELSE in

\* whether the literal lit stands at offset pos
LitMatches(lit, text, pos, ic) ==
    /\ pos + Len(lit) <= Len(text)
    /\ \A i \in 1..Len(lit) :
          \/ CharAt(text, pos + i) = CharAt(lit, i)
          \/ ic /\ LowerChar(CharAt(text, pos + i)) = LowerChar(CharAt(lit, i))

\* how many characters from offset pos on are in the set node, at most max
RunLength(node, text, pos, max, ic) ==
    LET stop == {i \in (pos + 1)..Len(text) : ~CharMatches(node, CharAt(text, i), ic)}
        run == IF stop = {} THEN Len(text) - pos
               ELSE (CHOOSE i \in stop : \A j \in stop : i <= j) - pos - 1
    IN  IF max # -1 /\ run > max THEN max ELSE run

\* of the attempts <<rank, outcome>>, the successful one of lowest rank
FirstAttempt(attempts) ==
    LET good == {a \in attempts : a[2].ok}
    IN  IF good = {} THEN <<0, NoMatch>>
        ELSE CHOOSE a \in good : \A b \in good : a[1] <= b[1]

FirstMatch(attempts) == FirstAttempt(attempts)[2]

\* the outcome of the attempt made at offset a[1]
StartingAt(a) == [a[2] EXCEPT !.start = a[1]]

\* of the attempts <<rank, outcome>>, the successful outcome of highest rank
LastMatch(attempts) ==
    LET good == {a \in attempts : a[2].ok}
    IN  IF good = {} THEN NoMatch
        ELSE (CHOOSE a \in good : \A b \in good : a[1] >= b[1])[2]

RECURSIVE Match(_, _, _, _, _)
\* todo: the nodes still to match at offset pos; ic: re.IGNORECASE
Match(todo, text, pos, caps, ic) ==
    IF todo = <<>> THEN [ok |-> TRUE, start |-> 0, end |-> pos, caps |-> caps]
    ELSE
    LET n == todo[1]
        rest == Tail(todo)
    IN  CASE n.t = "set" ->
                IF pos < Len(text) /\ CharMatches(n, CharAt(text, pos + 1), ic)
                THEN Match(rest, text, pos + 1, caps, ic)
                ELSE NoMatch
          [] n.t = "lit" ->
                IF LitMatches(n.s, text, pos, ic)
                THEN Match(rest, text, pos + Len(n.s), caps, ic)
                ELSE NoMatch
          [] n.t = "wb" ->
                IF AtWordBoundary(text, pos)
                THEN Match(rest, text, pos, caps, ic)
                ELSE NoMatch
          [] n.t = "seq" -> Match(n.xs \o rest, text, pos, caps, ic)
          [] n.t = "alt" ->
                \* the first alternative with which the rest matches
                FirstMatch({<<i, Match(<<n.xs[i]>> \o rest, text, pos, caps, ic)>> :
                               i \in 1..Len(n.xs)})
          [] n.t = "rep" /\ n.x.t = "set" ->
                \* the longest run of the set with which the rest matches
                LastMatch({<<k, Match(rest, text, pos + k, caps, ic)>> :
                              k \in n.min..RunLength(n.x, text, pos, n.max, ic)})
          [] n.t = "rep" /\ n.x.t # "set" ->
                \* once more if the rest then matches, else no more
                FirstMatch(
                    (IF n.max = 0 THEN {}
                     ELSE {<<0, Match(<<n.x, Rep(n.x,
                                               IF n.min > 0 THEN n.min - 1 ELSE 0,
                                               IF n.max = -1 THEN -1 ELSE n.max - 1)>>
                                      \o rest, text, pos, caps, ic)>>})
                    \cup
                    (IF n.min = 0
                     THEN {<<1, Match(rest, text, pos, caps, ic)>>}
                     ELSE {}))
          [] n.t = "grp" ->
                Match(<<n.x, [t |-> "close", n |-> n.n, from |-> pos]>> \o rest,
                      text, pos, caps, ic)
          [] n.t = "close" ->
                Match(rest, text, pos, [caps EXCEPT ![n.n] = <<n.from, pos>>], ic)

\* re.search from offset pos on: the leftmost match
SearchFrom(re, text, pos, ic) ==
    StartingAt(FirstAttempt({<<p, Match(<<re>>, text, p, NoCaps, ic)>> :
                                p \in pos..Len(text)}))

\* re.search(re, text, flags)
Search(re, text, ic) == SearchFrom(re, text, 0, ic)

\* match.group(0)
Group0(text, m) == SubSeq(text, m.start + 1, m.end)

\* whether group g took part in the match
HasGroup(m, g) == m.caps[g][1] # -1

\* match.group(g); None is modelled by HasGroup
Group(text, m, g) == SubSeq(text, m.caps[g][1] + 1, m.caps[g][2])

RECURSIVE FindAllFrom(_, _, _, _)
\* the matches that follow the match m
FindAllAfter(re, text, m, ic) ==
    IF ~m.ok THEN <<>>
    ELSE <<Group0(text, m)>>
         \o FindAllFrom(re, text, IF m.end = m.start THEN m.end + 1 ELSE m.end, ic)

\* re.findall for a pattern without groups: the matches left to right, none
\* overlapping (an empty match moves on by one character)
FindAllFrom(re, text, pos, ic) == FindAllAfter(re, text, SearchFrom(re, text, pos, ic), ic)

FindAll(re, text, ic) == FindAllFrom(re, text, 0, ic)

(***************************************************************************)
(* src/app.py: the patterns                                                *)
(***************************************************************************)
\* \d
D == Ch(Digits)

\* \s
S == Ch(Space)

\* [\/\-]
DateSep == Ch({"/", "-"})

DATE_RE ==
    Alt(<<Grp(1, Cat(<<WB, Rep(D, 1, 2), DateSep, Rep(D, 1, 2), DateSep, Rep(D, 2, 4), WB>>)),
          Grp(2, Cat(<<WB, Rep(D, 4, 4), DateSep, Rep(D, 1, 2), DateSep, Rep(D, 1, 2), WB>>))>>)

\* compiled with re.I
GSTIN_RE ==
    Cat(<<WB, Rep(D, 2, 2), Rep(Ch(UpperSet), 5, 5), Rep(D, 4, 4), Rep(Ch(UpperSet), 1, 1),
          Rep(Ch(StrSet("123456789") \cup UpperSet), 1, 1), Lit("Z"),
          Rep(Ch(Digits \cup UpperSet), 1, 1), WB>>)

\* (?i)
INVNO_RE ==
    Cat(<<Grp(1, Cat(<<Lit("invoice"), Star(S),
                       Grp(2, Alt(<<Lit("no"), Lit("number"), Lit("#")>>)),
                       Star(Ch({":"} \cup Space))>>)),
          Grp(3, Plus(Ch(UpperSet \cup Digits \cup {"-", "/"})))>>)

\* (?i)
INVTYPE_RE ==
    Cat(<<WB,
          Grp(1, Alt(<<Lit("Tax Invoice"), Lit("Credit Note"), Lit("Debit Note"),
                       Lit("Bill of Supply")>>)),
          WB>>)

\* \d+(?:\.\d{1,2})?
Decimal == Cat(<<Plus(D), Opt(Cat(<<Lit("."), Rep(D, 1, 2)>>))>>)

\* the pattern of the text heuristic, line 156
ITEM_LINE_RE ==
    Cat(<<Plus(D), Plus(S), Rep(Ch(WordChars \cup Space), 3, -1), Plus(S), Decimal,
          Plus(S), Decimal>>)

(***************************************************************************)
(* Optional values: None is the empty tuple, a value v is <<v>>            *)
(***************************************************************************)
None == <<>>

Some(v) == <<v>>

\* o or ""
OrEmpty(o) == IF o = None THEN "" ELSE o[1]

\* the truth value of an optional string: neither None nor ""
Truthy(o) == o # None /\ o[1] # ""

\* [F(e) for e in seq]
Map(F(_), seq) == [i \in 1..Len(seq) |-> F(seq[i])]

(***************************************************************************)
(* src/app.py: header fields and line items                                *)
(***************************************************************************)
\* lines 51 to 69, given the four matches
header_from(m, md, mt, g, text, filename) ==
    [source_file |-> filename,
     invoice_number |-> IF m.ok THEN Strip(Group(text, m, 3)) ELSE RSplitDot(filename),
     invoice_date |-> IF md.ok THEN Group0(text, md) ELSE "",
     invoice_type |-> IF mt.ok THEN Group(text, mt, 1) ELSE "",
     supplier_gstin |-> IF Len(g) > 0 THEN g[1] ELSE "",
     customer_gstin |-> IF Len(g) > 1 THEN g[2] ELSE ""]

parse_invoice_header(text, filename) ==
    header_from(Search(INVNO_RE, text, TRUE), Search(DATE_RE, text, FALSE),
                Search(INVTYPE_RE, text, TRUE), FindAll(GSTIN_RE, text, TRUE),
                text, filename)

ItemKeys ==
    <<"description", "item", "hsn", "qty", "quantity", "rate", "amount", "taxable", "value">>

\* a table is a sequence of rows, a row a sequence of cells, a cell an
\* optional string
table_has_items(table) ==
    IF table = <<>> \/ table[1] = <<>> THEN FALSE
    ELSE LET cells == SelectSeq(table[1], Truthy)
             lowered(c) == Lower(c[1])
             header == Join(Map(lowered, cells), " ")
         IN  \E k \in 1..Len(ItemKeys) : Contains(ItemKeys[k], header)

normalize_table(table) ==
    LET cell(c) == IF c = None THEN "" ELSE Strip(c[1])
        row(r) == Map(cell, r)
    IN  Map(row, table)

\* the 0-based index of the first header cell that contains one of the
\* names, spaces removed and case folded; -1 is None
find_col(header, names) ==
    LET squeeze(n) == Lower(RemoveSpaces(n))
        joined == Map(squeeze, names)
        hit == {i \in 1..Len(header) :
                   \E j \in 1..Len(joined) : Contains(joined[j], squeeze(header[i]))}
    IN  IF hit = {} THEN -1 ELSE Kth(hit, 1) - 1

EmptyItem == [item_description |-> "", quantity |-> "", unit_price |-> "", taxable_value |-> ""]

\* lines 104 to 109: the item of a row of the normalized table
item_of_row(row, col_desc, col_qty, col_rate, col_taxv) ==
    LET at(col) == IF col # -1 /\ col < Len(row) THEN row[col + 1] ELSE ""
    IN  [item_description |->
             IF col_desc # -1 /\ col_desc < Len(row) THEN row[col_desc + 1]
             ELSE IF Len(row) > 1 THEN row[2] ELSE "",
         quantity |-> at(col_qty),
         unit_price |-> at(col_rate),
         taxable_value |-> at(col_taxv)]

\* lines 100 to 112 on the normalized table t with its lowered header
items_of_rows(t, col_desc, col_qty, col_rate, col_taxv) ==
    LET any(row) == \E i \in 1..Len(row) : row[i] # ""
        item(row) == item_of_row(row, col_desc, col_qty, col_rate, col_taxv)
        rows_kept == SelectSeq(Tail(t), any)
    IN  IF rows_kept = <<>> THEN <<EmptyItem>> ELSE Map(item, rows_kept)

\* lines 84 to 112 on the normalized table t
map_normalized(t, header) ==
    items_of_rows(t,
                  find_col(header, <<"description", "item", "particular">>),
                  find_col(header, <<"qty", "quantity">>),
                  find_col(header, <<"rate", "unitprice", "price">>),
                  find_col(header, <<"taxable value", "value", "amount">>))

header_of(t) == Map(Lower, t[1])

map_table_to_items(table) ==
    map_normalized(normalize_table(table), header_of(normalize_table(table)))

\* re.split(r'\s{2,}', s): s cut at every longest run of two or more spaces
SplitColumns(s) ==
    LET sp(i) == i >= 1 /\ i <= Len(s) /\ CharAt(s, i) \in Space
        sep(i) == sp(i) /\ (sp(i - 1) \/ sp(i + 1))
        cuts == {i \in 1..Len(s) : sep(i) /\ ~sep(i - 1)}
        n == Cardinality(cuts)
        from(k) == IF k = 1 THEN 1
                   ELSE LET c == Kth(cuts, k - 1)
                        IN  c + RunLength(S, s, c - 1, -1, FALSE)
        to(k) == IF k = n + 1 THEN Len(s) ELSE Kth(cuts, k) - 1
    IN  [k \in 1..(n + 1) |-> SubSeq(s, from(k), to(k))]

\* lines 161 to 166: the item of the columns of a line
item_of_parts(p) ==
    [item_description |-> p[1],
     quantity |-> p[2],
     unit_price |-> p[3],
     taxable_value |-> IF Len(p) > 3 THEN p[4] ELSE ""]

\* lines 158 to 166
items_of_lines(line_items) ==
    LET parts(ln) == SplitColumns(Strip(ln))
        enough(p) == Len(p) >= 3
    IN  Map(item_of_parts, SelectSeq(Map(parts, line_items), enough))

\* lines 154 to 166: the items the text heuristic finds
text_heuristic_items(text) ==
    LET qualifies(line) == Search(ITEM_LINE_RE, line, FALSE).ok
    IN  items_of_lines(SelectSeq(SplitLines(text), qualifies))

\* items_from_tables without the break of line 151: the last table that has
\* items wins
items_from_last_table(tables_meta) ==
    LET fit == {k \in 1..Len(tables_meta) : table_has_items(tables_meta[k].table)}
    IN  IF fit = {} THEN <<>>
        ELSE map_table_to_items(tables_meta[Kth(fit, Cardinality(fit))].table)

\* lines 145 to 151: the projection of the first table that has items, or
\* nothing when no table has
items_from_tables(tables_meta) ==
    LET fit == {k \in 1..Len(tables_meta) : table_has_items(tables_meta[k].table)}
    IN  IF fit = {} THEN <<>> ELSE map_table_to_items(tables_meta[Kth(fit, 1)].table)

\* or_empty_item without lines 167 and 168
or_no_item(found) == found

\* lines 167 and 168
or_empty_item(found) == IF found = <<>> THEN <<EmptyItem>> ELSE found

\* lines 152 to 166
or_text_heuristic(from_tables, text) ==
    IF from_tables = <<>> THEN text_heuristic_items(text) ELSE from_tables

\* lines 145 to 168
parse_items(tables_meta, text) ==
    or_empty_item(or_text_heuristic(items_from_tables(tables_meta), text))

\* lines 172 to 183: the row of one item
row_of(header, it) ==
    [source_file |-> header.source_file,
     invoice_number |-> header.invoice_number,
     invoice_date |-> header.invoice_date,
     invoice_type |-> header.invoice_type,
     supplier_gstin |-> header.supplier_gstin,
     customer_gstin |-> header.customer_gstin,
     item_description |-> it.item_description,
     quantity |-> it.quantity,
     unit_price |-> it.unit_price,
     taxable_value |-> it.taxable_value]

\* collect_rows with a header that is not rebound per document: every row
\* repeats the header of the first row collected
collect_rows_stale_header(rows, header, items) ==
    rows \o [k \in 1..Len(items) |->
                row_of(IF rows = <<>> THEN header ELSE rows[1], items[k])]

\* lines 171 to 183: one row per item, the header fields repeated
collect_rows(rows, header, items) ==
    rows \o [k \in 1..Len(items) |-> row_of(header, items[k])]

\* the first lines of the text that go into a payload
SnippetLines == 30

\* lines 186 to 190
payload_of(header, items, text) ==
    [summary |-> header,
     items |-> items,
     raw_text_snippet |-> Join(Take(SplitLines(text), SnippetLines), "\n")]

\* d[key] = value on a dict, kept as its (key, value) pairs in insertion order
dict_set(d, key, value) ==
    IF \E i \in 1..Len(d) : d[i].key = key
    THEN [i \in 1..Len(d) |-> IF d[i].key = key THEN [key |-> key, value |-> value] ELSE d[i]]
    ELSE Append(d, [key |-> key, value |-> value])

(***************************************************************************)
(* The PDF libraries.  A document is its pages; of a page the model keeps  *)
(* what pdfplumber reads from it (the text layer, None when there is none, *)
(* and the tables) and what tesseract reads from its image under the       *)
(* configured ocr_lang.                                                    *)
(***************************************************************************)
\* lines 32 to 41
extract_with_pdfplumber(pdf) ==
    LET page_text(page) == OrEmpty(page.text)
        texts == Map(page_text, pdf)
        metas(pageno) == [k \in 1..Len(pdf[pageno].tables) |->
                             [page |-> pageno, table |-> pdf[pageno].tables[k]]]
        upto[n \in 0..Len(pdf)] == IF n = 0 THEN <<>> ELSE upto[n - 1] \o metas(n)
    IN  [text |-> Strip(Join(texts, "\n\n")), tables_meta |-> upto[Len(pdf)]]

\* lines 43 to 48
ocr_text_from_pdf(pdf) ==
    LET image_to_string(page) == page.image
    IN  Join(Map(image_to_string, pdf), "\n\n")

\* line 134: text shorter than this goes to OCR
MinTextLen == 20

\* needs_ocr without the length test of line 134
needs_ocr_if_empty(text, force) == text = "" \/ force

\* line 134
needs_ocr(text, force) == (text = "" \/ Len(text) < MinTextLen) \/ force

(***************************************************************************)
(* src/extractor.py                                                        *)
(***************************************************************************)
\* [A-Z0-9\-\/]
NumberChars == Ch(UpperSet \cup Digits \cup {"-", "/"})

\* [:\-]
ColonDash == Ch({":", "-"})

\* [₹\s,0-9.\-]
AmountChars == Ch({Rupee, ",", ".", "-"} \cup Space \cup Digits)

\* line 65
gstin_pattern ==
    Cat(<<WB, Rep(D, 2, 2), Rep(Ch(UpperSet), 5, 5), Rep(D, 4, 4), Ch(UpperSet),
          Ch(StrSet("123456789") \cup UpperSet), Lit("Z"), Ch(Digits \cup UpperSet), WB>>)

\* lines 70 to 73
invoice_number_patterns ==
    <<Cat(<<Lit("invoice"), Star(S),
            Grp(1, Alt(<<Lit("no."), Lit("number"), Lit("#"), Lit(":")>>)),
            Star(S), Grp(2, Plus(NumberChars))>>),
      Cat(<<Lit("inv"), Star(S), Grp(1, Alt(<<Lit("no."), Lit("#"), Lit(":")>>)),
            Star(S), Grp(2, Plus(NumberChars))>>)>>

\* lines 79 to 82
date_patterns ==
    <<Cat(<<WB, Grp(1, Cat(<<Rep(D, 2, 2), DateSep, Rep(D, 2, 2), DateSep, Rep(D, 4, 4)>>)),
            WB>>),
      Cat(<<WB, Grp(1, Cat(<<Rep(D, 4, 4), DateSep, Rep(D, 2, 2), DateSep, Rep(D, 2, 2)>>)),
            WB>>)>>

\* lines 88 to 91
vendor_patterns ==
    <<Cat(<<Alt(<<Lit("supplier"), Lit("vendor"), Lit("from")>>), Star(S), ColonDash,
            Star(S), Grp(1, Plus(Dot))>>),
      Cat(<<WB, Lit("tax invoice"), WB, Star(S), Grp(1, Plus(Dot))>>)>>

\* lines 92 to 94
buyer_patterns ==
    <<Cat(<<Alt(<<Lit("buyer"),
                  Cat(<<Lit("bill"), Star(S), Lit("to")>>),
                  Cat(<<Lit("ship"), Star(S), Lit("to")>>),
                  Cat(<<Lit("deliver"), Star(S), Lit("to")>>)>>),
            Star(S), ColonDash, Star(S), Grp(1, Plus(Dot))>>)>>

\* line 108
taxable_patterns ==
    <<Cat(<<Lit("taxable"), Star(S), Grp(1, Alt(<<Lit("amount"), Lit("value")>>)), Star(S),
            Opt(ColonDash), Star(S), Grp(2, Plus(AmountChars))>>)>>

\* lines 109 to 111: cgst, sgst, igst
gst_patterns(label) ==
    <<Cat(<<Lit(label), Star(NotCh(Digits)), Grp(1, Plus(AmountChars))>>)>>

\* lines 112 to 115
total_patterns ==
    <<Cat(<<Lit("total"), Star(S), Opt(Grp(1, Cat(<<Lit("invoice"), Star(S)>>))),
            Grp(2, Alt(<<Lit("amount"), Lit("value")>>)), Star(S), Opt(ColonDash), Star(S),
            Grp(3, Plus(AmountChars))>>),
      Cat(<<Lit("grand"), Star(S), Lit("total"), Star(S), Opt(ColonDash), Star(S),
            Grp(1, Plus(AmountChars))>>)>>

\* line 126
hsn_patterns ==
    <<Cat(<<Lit("hsn"), Opt(Lit("/sac")), Star(S), Opt(ColonDash), Star(S),
            Grp(1, Rep(D, 4, 8))>>)>>

\* line 130
place_patterns ==
    <<Cat(<<Lit("place"), Star(S), Lit("of"), Star(S), Lit("supply"), Star(S), ColonDash,
            Star(S), Grp(1, Plus(Ch(Letters \cup Space)))>>)>>

\* lines 134 to 138
invoice_type_patterns ==
    <<Cat(<<WB, Grp(1, Cat(<<Lit("tax"), Star(S), Lit("invoice")>>)), WB>>),
      Cat(<<WB, Grp(1, Cat(<<Lit("retail"), Star(S), Lit("invoice")>>)), WB>>),
      Cat(<<WB, Grp(1, Cat(<<Lit("supply"), Star(S), Lit("invoice")>>)), WB>>)>>

\* lines 42 to 47: the value taken from a match
value_of_match(text, m) ==
    LET \* match.lastindex: the groups of these patterns do not nest
        filled == {g \in 1..3 : HasGroup(m, g) /\ Strip(Group(text, m, g)) # ""}
    IN  IF filled = {} THEN Strip(Group0(text, m))
        ELSE Strip(Group(text, m, CHOOSE g \in filled : \A h \in filled : g >= h))

\* the outcome of the first pattern that matches
first_match(matches) ==
    LET hit == {i \in 1..Len(matches) : matches[i].ok}
    IN  IF hit = {} THEN NoMatch ELSE matches[Kth(hit, 1)]

\* lines 37 to 48, flags = re.IGNORECASE
extract_first_from(text, m) == IF m.ok THEN Some(value_of_match(text, m)) ELSE None

_extract_first(patterns, text) ==
    extract_first_from(text,
        first_match([i \in 1..Len(patterns) |-> Search(patterns[i], text, TRUE)]))

\* a float is num / 10^scale
Zero == [num |-> 0, scale |-> 0]

DigitValue(c) == CHOOSE v \in 0..9 : CharAt("0123456789", v + 1) = c

RECURSIVE NatOf(_)
\* the number the digits spell
NatOf(digits) ==
    IF digits = "" THEN 0
    ELSE 10 * NatOf(SubSeq(digits, 1, Len(digits) - 1)) + DigitValue(CharAt(digits, Len(digits)))

KeepAmountChar(c) == IF c \in Digits \cup {".", "-"} THEN c ELSE ""

\* float(cleaned) for a string of digits, "." and "-": an optional sign, then
\* digits with at most one ".", at least one digit; anything else raises
float_of(cleaned) ==
    LET body == IF cleaned # "" /\ Head(cleaned) = "-" THEN Tail(cleaned) ELSE cleaned
        dots == {i \in 1..Len(body) : CharAt(body, i) = "."}
        dot == IF dots = {} THEN Len(body) + 1 ELSE Kth(dots, 1)
        digits == SubSeq(body, 1, dot - 1) \o SubSeq(body, dot + 1, Len(body))
        valid == /\ \A i \in 1..Len(body) : CharAt(body, i) \in Digits \cup {"."}
                 /\ Cardinality(dots) <= 1
                 /\ digits # ""
        sign == IF body = cleaned THEN 1 ELSE -1
    IN  IF valid
        THEN Some([num |-> sign * NatOf(digits),
                   scale |-> IF dots = {} THEN 0 ELSE Len(body) - dot])
        ELSE None

\* lines 51 to 60; the first re.sub removes what the second would remove too
_parse_amount(amount_str) ==
    IF amount_str = None THEN None
    ELSE float_of(MapChars(KeepAmountChar, amount_str[1], <<1, Len(amount_str[1])>>))

_extract_gstin(text) == _extract_first(<<gstin_pattern>>, text)

_extract_invoice_number(text) == _extract_first(invoice_number_patterns, text)

_extract_date(text) == _extract_first(date_patterns, text)

\* lines 100 to 103: the first line of a name
first_line(name) ==
    IF name = None \/ name[1] = "" THEN name ELSE Some(Strip(SplitLines(name[1])[1]))

\* lines 86 to 104
_extract_names(text) ==
    [vendor |-> first_line(_extract_first(vendor_patterns, text)),
     buyer |-> first_line(_extract_first(buyer_patterns, text))]

\* lines 107 to 122
_extract_tax_values(text) ==
    [taxable |-> _parse_amount(_extract_first(taxable_patterns, text)),
     cgst |-> _parse_amount(_extract_first(gst_patterns("cgst"), text)),
     sgst |-> _parse_amount(_extract_first(gst_patterns("sgst"), text)),
     igst |-> _parse_amount(_extract_first(gst_patterns("igst"), text)),
     total |-> _parse_amount(_extract_first(total_patterns, text))]

_extract_hsn(text) == _extract_first(hsn_patterns, text)

_extract_place_of_supply(text) == _extract_first(place_patterns, text)

_extract_invoice_type(text) == _extract_first(invoice_type_patterns, text)

\* OrZero without the default: None stays None
OrZero_keeps_none(o) == IF o = None THEN None ELSE o[1]

\* x if x is not None else 0
OrZero(o) == IF o = None THEN Zero ELSE o[1]

\* the characters of the raw-text preview, line 163
PreviewLen == 200

\* lines 148 to 164, given the tax values and the names
data_from(text, tax, names) ==
    [Invoice_Number |-> OrEmpty(_extract_invoice_number(text)),
     GSTIN |-> OrEmpty(_extract_gstin(text)),
     Date |-> OrEmpty(_extract_date(text)),
     Vendor_Name |-> OrEmpty(names.vendor),
     Buyer_Name |-> OrEmpty(names.buyer),
     Taxable_Value |-> OrZero(tax.taxable),
     CGST |-> OrZero(tax.cgst),
     SGST |-> OrZero(tax.sgst),
     IGST |-> OrZero(tax.igst),
     Total_Invoice_Value |-> OrZero(tax.total),
     HSN_Code |-> OrEmpty(_extract_hsn(text)),
     Place_of_Supply |-> OrEmpty(_extract_place_of_supply(text)),
     Invoice_Type |-> OrEmpty(_extract_invoice_type(text)),
     Raw_Text_Extracted |->
         IF text # ""
         THEN Take(text, PreviewLen) \o (IF Len(text) > PreviewLen THEN Ellipsis ELSE "")
         ELSE ""]

\* lines 145 to 166 on the text read
extract_from_text(text) == data_from(text, _extract_tax_values(text), _extract_names(text))

\* lines 8 to 34: pages is the text layer of each page (None when a page has
\* none), as either library reads it; the PyPDF2 pages in bad_pages raise
_read_pdf_text(pages, plumber_raises, pypdf_raises, bad_pages) ==
    LET joined == Strip(Join(Map(OrEmpty, pages), "\n"))
        kept == SelectSeq([i \in 1..Len(pages) |-> IF i \in bad_pages THEN None ELSE Some(OrEmpty(pages[i]))],
                          LAMBDA o : o # None)
    IN  IF ~plumber_raises /\ joined # "" THEN joined
        ELSE IF pypdf_raises THEN ""
        ELSE Strip(Join(Map(LAMBDA o : o[1], kept), "\n"))

(***************************************************************************)
(* The documents the batch is drawn from                                   *)
(***************************************************************************)
Row(strs) == Map(Some, strs)

\* two pages of selectable text and one item table with two data rows
PdfInvoice ==
    <<[text |-> Some("Tax Invoice\nInvoice No: INV-001\nGSTIN 27ABCDE1234F1Z5"),
       tables |-> <<>>,
       image |-> "Tax lnvoice\nInvoice No: INV-OO1"],
      [text |-> Some("Date 25/04/2025"),
       tables |-> << <<Row(<<"Description", "Qty", "Rate", "Taxable Value">>),
                      Row(<<"Widget", "2", "100.00", "200.00">>),
                      Row(<<"Gadget", "1", "50.00", "50.00">>)>> >>,
       image |-> "Date 25/04/2025"]>>

\* a scan: no text layer, no table; the image holds an item line
PdfScanned ==
    <<[text |-> None,
       tables |-> <<>>,
       image |-> "Invoice No: S-77\n1  Bolt M8  10  2.50  25.00"]>>

\* 19 characters of text, an item table, and a longer image text
PdfShort ==
    <<[text |-> Some("Invoice No: SHORT-1"),
       tables |-> << <<Row(<<"Item", "Qty">>), Row(<<"Nut", "5">>)>> >>,
       image |-> "Credit Note\nInvoice # CN-9 01-02-2024"]>>

\* a table without item header, an item table with a header and blank rows
\* only, a third item table; the text holds an item line
PdfHeaderOnly ==
    <<[text |-> Some("Debit Note 3/4/24\n1  Screw  4  1.00  4.00"),
       tables |-> << <<Row(<<"Sr", "Name">>), Row(<<"1", "x">>)>>,
                     <<Row(<<"HSN", "Qty">>), <<None, Some(" ")>> >>,
                     <<Row(<<"Item", "Amount">>), Row(<<"Late", "9">>)>> >>,
       image |-> "Debit Note"]>>

\* nothing to read: blank text, a table without item header, a blank image
PdfBlank ==
    <<[text |-> Some("  \n "),
       tables |-> << <<Row(<<"Page", "Of">>), Row(<<"1", "1">>)>> >>,
       image |-> ""]>>

\* exactly 20 characters of text, an item line, and a table without item header
PdfNoItemTable ==
    <<[text |-> Some("7  Gear  1  9.5  9.5"),
       tables |-> << <<Row(<<"Sr", "Name">>), Row(<<"1", "x">>)>> >>,
       image |-> "Bill of Supply"]>>

Pdfs == {PdfInvoice, PdfScanned, PdfShort, PdfHeaderOnly, PdfBlank, PdfNoItemTable}

\* an uploaded file: its name and what read() returns; two uploads may carry
\* the same name
Files ==
    [name : {"a.pdf"}, pdf : Pdfs] \cup {[name |-> "b.v2.pdf", pdf |-> PdfInvoice]}

\* the most files in a batch
MaxDocs == 2

Batches == UNION {[1..n -> Files] : n \in 0..MaxDocs}

(***************************************************************************)
(* The batch run, lines 114 to 231                                         *)
(***************************************************************************)
VARIABLES
    force_ocr,             \* the sidebar checkbox, line 14
    uploaded_files,        \* line 24
    pc,                    \* where the script is
    idx,                   \* the loop counter of line 120
    text,                  \* the locals of the loop body
    tables_meta,
    header,
    items,
    rows,                  \* line 115
    per_invoice_payloads,  \* line 116, a dict in insertion order
    archive,               \* the names written to the ZIP, lines 212 to 221
    calls                  \* per document: what each stage did and handed on

(***************************************************************************)
(* One call of extract_from_pdf and of parse_invoice_header                *)
(***************************************************************************)
VARIABLES
    pages,                 \* the text layer of the file's pages
    data,                  \* what extract_from_pdf returned, None before the call
    summary                \* what parse_invoice_header returned, None before the call

batch_vars == <<force_ocr, uploaded_files, pc, idx, text, tables_meta, header, items, rows,
                per_invoice_payloads, archive, calls>>

field_vars == <<pages, data, summary>>

vars == <<batch_vars, field_vars>>

NoHeader == parse_invoice_header("", "")

Init ==
    /\ force_ocr \in BOOLEAN
    /\ uploaded_files \in Batches
    /\ pc = "start"
    /\ idx = 0
    /\ text = ""
    /\ tables_meta = <<>>
    /\ header = NoHeader
    /\ items = <<>>
    /\ rows = <<>>
    /\ per_invoice_payloads = <<>>
    /\ archive = <<>>
    /\ calls = <<>>
    /\ pages = <<>>
    /\ data = None
    /\ summary = None

up == uploaded_files[idx]

\* the record of a document whose processing starts
NewCall(structured, result) ==
    [fname |-> up.name,
     structured |-> structured,
     struct_text |-> result.text,
     struct_tables |-> result.tables_meta,
     ocr |-> "pending",
     parsed |-> FALSE,
     text |-> "",
     tables |-> <<>>,
     heuristic |-> FALSE,
     header |-> NoHeader,
     items |-> <<>>,
     collected |-> FALSE]

Nothing == [text |-> "", tables_meta |-> <<>>]

\* line 114 with no upload: line 231
NoUpload ==
    /\ pc = "start"
    /\ uploaded_files = <<>>
    /\ pc' = "end"
    /\ UNCHANGED <<force_ocr, uploaded_files, idx, text, tables_meta, header, items, rows,
                   per_invoice_payloads, archive, calls,
                   field_vars>>

\* lines 114 to 120: the loop is entered
BeginBatch ==
    /\ pc = "start"
    /\ uploaded_files # <<>>
    /\ rows' = <<>>
    /\ per_invoice_payloads' = <<>>
    /\ idx' = 1
    /\ pc' = "structured"
    /\ UNCHANGED <<force_ocr, uploaded_files, text, tables_meta, header, items, archive, calls,
                   field_vars>>

\* lines 121 to 127 with force_ocr set: pdfplumber is not called
StructuredSkipped ==
    /\ pc = "structured"
    /\ force_ocr
    /\ text' = ""
    /\ tables_meta' = <<>>
    /\ calls' = Append(calls, NewCall("skipped", Nothing))
    /\ pc' = "ocr"
    /\ UNCHANGED <<force_ocr, uploaded_files, idx, header, items, rows,
                   per_invoice_payloads, archive,
                   field_vars>>

\* lines 121 to 129: pdfplumber returns
StructuredReturns ==
    /\ pc = "structured"
    /\ ~force_ocr
    /\ LET result == extract_with_pdfplumber(up.pdf)
       IN  /\ text' = result.text
           /\ tables_meta' = result.tables_meta
           /\ calls' = Append(calls, NewCall("returned", result))
    /\ pc' = "ocr"
    /\ UNCHANGED <<force_ocr, uploaded_files, idx, header, items, rows,
                   per_invoice_payloads, archive,
                   field_vars>>

\* StructuredRaises without the reset of line 125: text and tables_meta keep
\* what the previous document left
StructuredRaises_stale ==
    /\ pc = "structured"
    /\ ~force_ocr
    /\ calls' = Append(calls, NewCall("raised", Nothing))
    /\ pc' = "ocr"
    /\ UNCHANGED <<force_ocr, uploaded_files, idx, text, tables_meta, header, items, rows,
                   per_invoice_payloads, archive, field_vars>>

\* lines 121 to 131: pdfplumber raises, the warning is shown, text and
\* tables_meta keep the values of line 125
StructuredRaises ==
    /\ pc = "structured"
    /\ ~force_ocr
    /\ text' = ""
    /\ tables_meta' = <<>>
    /\ calls' = Append(calls, NewCall("raised", Nothing))
    /\ pc' = "ocr"
    /\ UNCHANGED <<force_ocr, uploaded_files, idx, header, items, rows,
                   per_invoice_payloads, archive,
                   field_vars>>

\* line 134, condition false
OcrSkipped ==
    /\ pc = "ocr"
    /\ ~needs_ocr(text, force_ocr)
    /\ calls' = [calls EXCEPT ![idx].ocr = "skipped"]
    /\ pc' = "parse"
    /\ UNCHANGED <<force_ocr, uploaded_files, idx, text, tables_meta, header, items, rows,
                   per_invoice_payloads, archive,
                   field_vars>>

\* OcrReturns that merges: the OCR text is appended to the structured text
OcrReturns_merges ==
    /\ pc = "ocr"
    /\ needs_ocr(text, force_ocr)
    /\ text' = text \o ocr_text_from_pdf(up.pdf)
    /\ calls' = [calls EXCEPT ![idx].ocr = "returned"]
    /\ pc' = "parse"
    /\ UNCHANGED <<force_ocr, uploaded_files, idx, tables_meta, header, items, rows,
                   per_invoice_payloads, archive, field_vars>>

\* lines 134 to 136: OCR returns
OcrReturns ==
    /\ pc = "ocr"
    /\ needs_ocr(text, force_ocr)
    /\ text' = ocr_text_from_pdf(up.pdf)
    /\ calls' = [calls EXCEPT ![idx].ocr = "returned"]
    /\ pc' = "parse"
    /\ UNCHANGED <<force_ocr, uploaded_files, idx, tables_meta, header, items, rows,
                   per_invoice_payloads, archive,
                   field_vars>>

\* OcrRaises without the except of line 137: the script stops
OcrRaises_uncaught ==
    /\ pc = "ocr"
    /\ needs_ocr(text, force_ocr)
    /\ calls' = [calls EXCEPT ![idx].ocr = "raised"]
    /\ pc' = "crashed"
    /\ UNCHANGED <<force_ocr, uploaded_files, idx, text, tables_meta, header, items, rows,
                   per_invoice_payloads, archive, field_vars>>

\* lines 134 to 139: OCR raises, the error is shown
OcrRaises ==
    /\ pc = "ocr"
    /\ needs_ocr(text, force_ocr)
    /\ text' = (IF text # "" THEN text ELSE "")
    /\ calls' = [calls EXCEPT ![idx].ocr = "raised"]
    /\ pc' = "parse"
    /\ UNCHANGED <<force_ocr, uploaded_files, idx, tables_meta, header, items, rows,
                   per_invoice_payloads, archive,
                   field_vars>>

\* lines 142 to 168
Parse ==
    /\ pc = "parse"
    /\ header' = parse_invoice_header(text, up.name)
    /\ items' = parse_items(tables_meta, text)
    /\ calls' = [calls EXCEPT ![idx] =
                    [@ EXCEPT !.parsed = TRUE,
                              !.text = text,
                              !.tables = tables_meta,
                              !.heuristic = (items_from_tables(tables_meta) = <<>>),
                              !.header = header',
                              !.items = items']]
    /\ pc' = "collect"
    /\ UNCHANGED <<force_ocr, uploaded_files, idx, text, tables_meta, rows,
                   per_invoice_payloads, archive,
                   field_vars>>

\* lines 171 to 192, then the next file of line 120 or line 194
Collect ==
    /\ pc = "collect"
    /\ rows' = collect_rows(rows, header, items)
    /\ per_invoice_payloads' =
           dict_set(per_invoice_payloads, up.name, payload_of(header, items, text))
    /\ calls' = [calls EXCEPT ![idx].collected = TRUE]
    /\ idx' = IF idx < Len(uploaded_files) THEN idx + 1 ELSE idx
    /\ pc' = IF idx < Len(uploaded_files) THEN "structured" ELSE "done"
    /\ UNCHANGED <<force_ocr, uploaded_files, text, tables_meta, header, items, archive,
                   field_vars>>

\* lines 213 to 221: the three files of every payload
zip_names(payloads) ==
    LET names(p) == LET base == RSplitDot(p.key)
                    IN  <<base \o "_summary.json", base \o "_items.csv", base \o "_raw.txt">>
        upto[n \in 0..Len(payloads)] ==
            IF n = 0 THEN <<>> ELSE upto[n - 1] \o names(payloads[n])
    IN  upto[Len(payloads)]

\* lines 194 to 228
Finish ==
    /\ pc = "done"
    /\ archive' = zip_names(per_invoice_payloads)
    /\ pc' = "end"
    /\ UNCHANGED <<force_ocr, uploaded_files, idx, text, tables_meta, header, items, rows,
                   per_invoice_payloads, calls,
                   field_vars>>

Next ==
    \/ NoUpload
    \/ BeginBatch
    \/ StructuredSkipped
    \/ StructuredReturns
    \/ StructuredRaises
    \/ OcrSkipped
    \/ OcrReturns
    \/ OcrRaises
    \/ Parse
    \/ Collect
    \/ Finish

Spec == Init /\ [][Next]_vars

\* the lines at which the script has a next step to take: the guard of every
\* step is its line, with force_ocr or needs_ocr and their negations at the
\* two lines that branch, so a step of Next is enabled at each of them, and
\* none is at "end"
Running == pc \in {"start", "structured", "ocr", "parse", "collect", "done"}

\* the script runs on: Streamlit executes it top to bottom and nothing in it
\* waits, so while it has a next step it takes one.  This is WF_vars(Next)
\* with ENABLED <<Next>>_vars written out as Running.
FairSpec == Spec /\ ([]<>~Running \/ []<><<Next>>_vars)

(***************************************************************************)
(* The fields of one document: extract_from_pdf of src/extractor.py and    *)
(* parse_invoice_header of src/app.py on the same text                     *)
(***************************************************************************)
RECURSIVE Strings(_, _)
\* the strings of at most n characters of the alphabet
Strings(alphabet, n) ==
    IF n = 0 THEN {""}
    ELSE {""} \cup {c \o s : c \in alphabet, s \in Strings(alphabet, n - 1)}

ValidGstin == "27ABCDE1234F1Z5"

GstinAlphabet == {"z", "Z", "a", "7", "0"}

\* the most characters cut from or added to a GSTIN
MaxEdit == 1

\* GSTIN-like tokens: one character replaced, the end cut, characters added
GstinTokens ==
    {SubSeq(ValidGstin, 1, i - 1) \o c \o SubSeq(ValidGstin, i + 1, Len(ValidGstin)) :
        i \in 1..Len(ValidGstin), c \in GstinAlphabet}
    \cup {SubSeq(ValidGstin, 1, Len(ValidGstin) - k) : k \in 0..MaxEdit}
    \cup {ValidGstin \o pad : pad \in Strings(GstinAlphabet, MaxEdit)}
    \cup {pad \o ValidGstin : pad \in Strings(GstinAlphabet, MaxEdit)}
    \cup {Lower(ValidGstin)}

AmountAlphabet == {"5", "-", ".", ","}

\* the most characters of an amount
MaxAmountLen == 3

AmountLabels == {"Taxable Value: ", "CGST ", "Total Amount: ", "Grand Total "}

AmountTexts == {label \o amount : label \in AmountLabels,
                                  amount \in Strings(AmountAlphabet, MaxAmountLen)}

FullInvoice ==
    <<Some("Tax Invoice ACME Traders\nInvoice No: INV-001 Date 25/04/2025\nGSTIN 27ABCDE1234F1Z5"),
      None,
      Some("Bill To: Bob\nHSN: 9983\nPlace of Supply: Goa\nTaxable Value: 100.00\nCGST @9% 9.00 SGST 9 IGST: 0\nTotal Invoice Value: @1,18.00")>>

\* one page of 21 lines, longer than the preview
LongInvoice ==
    <<Some(Join([i \in 1..21 |-> "Invoice No: 7/" \o CharAt("abcdefghijklmnopqrstu", i)], "\n"))>>

FieldDocs ==
    {<<Some(t)>> : t \in AmountTexts \cup GstinTokens}
    \cup {<<>>, <<None>>, <<Some(" ")>>, FullInvoice, LongInvoice}

InitFields ==
    /\ force_ocr = FALSE
    /\ uploaded_files = <<>>
    /\ pc = "fields"
    /\ idx = 0
    /\ text = ""
    /\ tables_meta = <<>>
    /\ header = NoHeader
    /\ items = <<>>
    /\ rows = <<>>
    /\ per_invoice_payloads = <<>>
    /\ archive = <<>>
    /\ calls = <<>>
    /\ pages \in FieldDocs
    /\ data = None
    /\ summary = None

\* what _read_pdf_text may return for the file: either library may fail
ReadOutcomes(doc) ==
    {_read_pdf_text(doc, plumber_raises, pypdf_raises, bad_pages) :
        plumber_raises \in BOOLEAN, pypdf_raises \in BOOLEAN,
        bad_pages \in SUBSET (1..Len(doc))}

\* src/extractor.py, lines 141 to 166
ExtractFromPdf ==
    /\ pc = "fields"
    /\ data = None
    /\ \E read \in ReadOutcomes(pages) : data' = Some(extract_from_text(read))
    /\ UNCHANGED <<batch_vars, pages, summary>>

\* src/app.py, lines 50 to 69, on the text pdfplumber reads
ParseInvoiceHeader ==
    /\ pc = "fields"
    /\ summary = None
    /\ summary' = Some(parse_invoice_header(_read_pdf_text(pages, FALSE, TRUE, {}), "doc.pdf"))
    /\ UNCHANGED <<batch_vars, pages, data>>

NextFields ==
    \/ ExtractFromPdf
    \/ ParseInvoiceHeader

SpecFields == InitFields /\ [][NextFields]_vars

(***************************************************************************)
(* Properties of the batch run, checked under Spec                         *)
(***************************************************************************)
\* the documents whose processing has started
Started == 1..Len(calls)

\* the tables of a list that table_has_items accepts
Qualifying(tables) == {k \in 1..Len(tables) : table_has_items(tables[k].table)}

\* C1: for every document, pdfplumber is called exactly when force_ocr is
\* false; OCR is called exactly when force_ocr is true or the text the
\* structured stage left is empty or shorter than 20 characters (so also when
\* that stage raised); with force_ocr false and 20 or more characters of
\* structured text OCR is never called.
C1_OcrExactlyWhenNeeded ==
    \A i \in Started :
        LET c == calls[i]
            short == c.struct_text = "" \/ Len(c.struct_text) < 20
        IN  /\ (c.structured \in {"returned", "raised"}) <=> ~force_ocr
            /\ c.structured = "skipped" <=> force_ocr
            /\ c.structured = "raised" => c.struct_text = ""
            /\ c.ocr # "pending" =>
                   ((c.ocr \in {"returned", "raised"}) <=> (force_ocr \/ short))
            /\ (~force_ocr /\ ~short) => c.ocr \in {"pending", "skipped"}

\* one document went to OCR because pdfplumber raised, the next one kept its
\* 20 characters of structured text
C1_Witness ==
    /\ Len(calls) = 2
    /\ calls[1].structured = "raised" /\ calls[1].ocr = "returned"
    /\ calls[2].structured = "returned" /\ Len(calls[2].struct_text) = 20
    /\ calls[2].ocr = "skipped"

\* what C2 says of every state of the loop
InUploadOrder ==
    /\ Len(calls) <= Len(uploaded_files)
    /\ \A i \in Started :
           /\ calls[i].fname = uploaded_files[i].name
           /\ i < Len(calls) => calls[i].collected
           /\ calls[i].collected =>
                  /\ Len(calls[i].items) >= 1
                  /\ \E r \in 1..Len(rows) : rows[r].source_file = calls[i].fname
    /\ pc \in {"structured", "ocr", "parse", "collect"} =>
           idx = (IF pc = "structured" THEN Len(calls) + 1 ELSE Len(calls))

\* what C2 says of the end of the loop
AllCollected ==
    /\ pc = "end"
    /\ Len(calls) = Len(uploaded_files)
    /\ \A i \in Started : calls[i].collected
    /\ Len(rows) >= Len(uploaded_files)

\* C2: whatever stages raise, the loop takes the documents one at a time in
\* upload order, a document is started only when all before it are collected
\* and each collected document has at least one row of its own in the
\* consolidated output; and the run reaches its end with all N documents
\* collected.
C2_BatchCompletes == []InUploadOrder /\ <>AllCollected

\* the batch is over; both stages raised for the first document and the
\* second was still processed
C2_Witness ==
    /\ pc = "end"
    /\ Len(uploaded_files) = 2
    /\ calls[1].structured = "raised" /\ calls[1].ocr = "raised"
    /\ calls[2].collected
    /\ calls[2].items # <<EmptyItem>>

\* C3: when OCR was called and returned, the text parsed is exactly the OCR
\* output; when OCR was called and raised, the text parsed is the structured
\* text of the same document if there was any, the empty string otherwise.
C3_OcrReplacesText ==
    \A i \in Started :
        LET c == calls[i]
        IN  c.parsed =>
                /\ c.ocr = "returned" => c.text = ocr_text_from_pdf(uploaded_files[i].pdf)
                /\ c.ocr = "raised" => c.text = c.struct_text
                /\ (c.ocr = "raised" /\ c.structured = "returned") =>
                       c.text = extract_with_pdfplumber(uploaded_files[i].pdf).text
                /\ (c.ocr = "raised" /\ c.structured # "returned") => c.text = ""

\* OCR replaced a short structured text for the first document and raised for
\* the second one, which kept its structured text
C3_Witness ==
    /\ Len(calls) = 2
    /\ calls[1].parsed /\ calls[1].ocr = "returned" /\ calls[1].struct_text # ""
    /\ calls[1].text # ""
    /\ calls[2].parsed /\ calls[2].ocr = "raised" /\ calls[2].struct_text # ""

\* C4: the items handed to record assembly are never empty, and when no table
\* qualifies and the text heuristic finds nothing (no tables, no qualifying
\* line, empty text) they are one record with four empty strings.
C4_AtLeastOneItem ==
    pc = "collect" =>
        /\ items # <<>>
        /\ calls[idx].items = items
        /\ (Qualifying(tables_meta) = {} /\ text_heuristic_items(text) = <<>>) =>
               /\ Len(items) = 1
               /\ items[1].item_description = "" /\ items[1].quantity = ""
               /\ items[1].unit_price = "" /\ items[1].taxable_value = ""
        /\ (tables_meta = <<>> /\ text = "") => items = <<EmptyItem>>

\* a document with a table that does not qualify and an empty text reaches
\* record assembly with the one empty item
C4_Witness ==
    /\ pc = "collect"
    /\ tables_meta # <<>> /\ Qualifying(tables_meta) = {}
    /\ text = ""
    /\ items = <<EmptyItem>>

\* C5: if a table of the document qualifies, the items are the projection of
\* the first such table, whatever the later tables and the text hold, and the
\* text heuristic is not run, even if that table has no non-blank data row;
\* the heuristic runs only when no table qualifies.
C5_FirstQualifyingTable ==
    pc = "collect" =>
        LET fit == Qualifying(tables_meta)
        IN  /\ fit # {} =>
                   /\ \E k \in fit :
                          /\ \A j \in fit : k <= j
                          /\ items = map_table_to_items(tables_meta[k].table)
                   /\ ~calls[idx].heuristic
            /\ calls[idx].heuristic <=> fit = {}

\* two tables qualify, the first has blank rows only, and the text holds an
\* item line: the items are the empty item of the first table
C5_Witness ==
    /\ pc = "collect"
    /\ Cardinality(Qualifying(tables_meta)) = 2
    /\ text_heuristic_items(text) # <<>>
    /\ items = <<EmptyItem>>
    /\ ~calls[idx].heuristic

\* the rows collected before document i
RowsBefore(i) ==
    LET upto[n \in 0..Len(calls)] ==
            IF n = 0 THEN 0
            ELSE upto[n - 1] + (IF calls[n].collected THEN Len(calls[n].items) ELSE 0)
    IN  upto[i - 1]

\* C7: the consolidated rows are, document after document in upload order,
\* one row per line item carrying that document's own six header fields and
\* the item's four fields; their number is the sum of the item counts.
C7_RowsFlattenInOrder ==
    /\ Len(rows) = RowsBefore(Len(calls) + 1)
    /\ \A i \in Started :
           calls[i].collected =>
               \A j \in 1..Len(calls[i].items) :
                   LET r == rows[RowsBefore(i) + j]
                       h == calls[i].header
                       it == calls[i].items[j]
                   IN  /\ r.source_file = uploaded_files[i].name
                       /\ r.source_file = h.source_file
                       /\ r.invoice_number = h.invoice_number
                       /\ r.invoice_date = h.invoice_date
                       /\ r.invoice_type = h.invoice_type
                       /\ r.supplier_gstin = h.supplier_gstin
                       /\ r.customer_gstin = h.customer_gstin
                       /\ r.item_description = it.item_description
                       /\ r.quantity = it.quantity
                       /\ r.unit_price = it.unit_price
                       /\ r.taxable_value = it.taxable_value

\* two documents with different headers are collected, the first with two
\* items: three rows
C7_Witness ==
    /\ pc = "end"
    /\ Len(calls) = 2
    /\ Len(calls[1].items) = 2 /\ Len(calls[2].items) = 1
    /\ calls[1].header.invoice_number # calls[2].header.invoice_number
    /\ calls[1].header.source_file # calls[2].header.source_file
    /\ Len(rows) = 3

\* C9: after the loop the payload collection holds one payload per uploaded
\* document, each with that document's summary, items and snippet, also when
\* two uploads carry the same filename.
C9_OnePayloadPerDocument ==
    pc \in {"done", "end"} =>
        /\ Len(per_invoice_payloads) = Len(uploaded_files)
        /\ \A i \in 1..Len(uploaded_files) :
               /\ per_invoice_payloads[i].key = uploaded_files[i].name
               /\ per_invoice_payloads[i].value.summary = calls[i].header
               /\ per_invoice_payloads[i].value.items = calls[i].items

\* C10: the tables used for the items are what the structured stage returned
\* for the document and OCR leaves them alone: none when that stage was
\* skipped or raised, so the items then come from the heuristic or the
\* default; and the structured tables still when OCR replaced a short text.
C10_TablesFromStructuredStage ==
    /\ pc \in {"ocr", "parse", "collect"} => tables_meta = calls[idx].struct_tables
    /\ \A i \in Started :
           LET c == calls[i]
           IN  /\ c.structured = "returned" =>
                      c.struct_tables = extract_with_pdfplumber(uploaded_files[i].pdf).tables_meta
               /\ c.structured \in {"skipped", "raised"} => c.struct_tables = <<>>
               /\ c.parsed =>
                      /\ c.tables = c.struct_tables
                      /\ c.structured \in {"skipped", "raised"} => c.heuristic

\* OCR replaced a 19-character structured text and the item table of the
\* structured stage was still the one used
C10_Witness ==
    /\ pc = "collect"
    /\ calls[idx].structured = "returned" /\ calls[idx].ocr = "returned"
    /\ calls[idx].struct_text # ""
    /\ tables_meta # <<>>
    /\ ~calls[idx].heuristic
    /\ items = map_table_to_items(tables_meta[1].table)

(***************************************************************************)
(* Properties of the header records, checked under SpecFields              *)
(***************************************************************************)
TextKeys ==
    {"Invoice_Number", "GSTIN", "Date", "Vendor_Name", "Buyer_Name", "HSN_Code",
     "Place_of_Supply", "Invoice_Type", "Raw_Text_Extracted"}

MoneyKeys == {"Taxable_Value", "CGST", "SGST", "IGST", "Total_Invoice_Value"}

SummaryKeys ==
    {"source_file", "invoice_number", "invoice_date", "invoice_type", "supplier_gstin",
     "customer_gstin"}

\* a float or the int 0, not None
IsNumber(v) == DOMAIN v = {"num", "scale"}

\* all the text of the file's pages
PageText == Join([i \in 1..Len(pages) |-> OrEmpty(pages[i])], "\n")

\* no page holds a digit
NoDigit == \A i \in 1..Len(PageText) : CharAt(PageText, i) \notin Digits

\* C6, with money fields that may be negative: the record extract_from_pdf
\* returns has every key, every text field is a string (empty when the text
\* holds nothing to resolve it from) and every money field is a number, 0 when
\* its label is absent or no amount can be parsed; the record
\* parse_invoice_header returns has its six keys, each a string, empty when
\* unresolved but for invoice_number, which is then the file name without
\* its extension.
C6_KeysAndTypes ==
    /\ data # None =>
           LET d == data[1]
           IN  /\ DOMAIN d = TextKeys \cup MoneyKeys
               /\ \A k \in TextKeys : d[k] \in STRING
               /\ \A k \in MoneyKeys : IsNumber(d[k])
               /\ NoDigit =>
                      /\ \A k \in MoneyKeys : d[k].num = 0
                      /\ d.GSTIN = "" /\ d.Date = "" /\ d.HSN_Code = ""
               /\ ~Contains("taxable", Lower(PageText)) => d.Taxable_Value.num = 0
               /\ ~Contains("cgst", Lower(PageText)) => d.CGST.num = 0
               /\ ~Contains("sgst", Lower(PageText)) => d.SGST.num = 0
               /\ ~Contains("igst", Lower(PageText)) => d.IGST.num = 0
               /\ ~Contains("total", Lower(PageText)) => d.Total_Invoice_Value.num = 0
               /\ ~Contains("inv", Lower(PageText)) => d.Invoice_Number = ""
               /\ PageText = "" =>
                      /\ \A k \in TextKeys : d[k] = ""
                      /\ \A k \in MoneyKeys : d[k].num = 0
    /\ summary # None =>
           LET h == summary[1]
           IN  /\ DOMAIN h = SummaryKeys
               /\ \A k \in SummaryKeys : h[k] \in STRING
               /\ h.source_file = "doc.pdf"
               /\ PageText = "" =>
                      /\ h.invoice_number = "doc"
                      /\ \A k \in SummaryKeys \ {"source_file", "invoice_number"} : h[k] = ""

\* a text with a negative taxable value and nothing else: the value is kept
\* with its sign, the other fields are "" or 0
C6_Witness ==
    /\ pages = <<Some("Taxable Value: -5")>>
    /\ data # None
    /\ data[1].Taxable_Value.num = -5
    /\ data[1].CGST.num = 0 /\ data[1].Total_Invoice_Value.num = 0
    /\ data[1].Invoice_Number = ""
    /\ summary # None

\* C6 as stated: every money field is a non-negative number.
C6_MoneyNonNegative ==
    data # None => \A k \in MoneyKeys : IsNumber(data[1][k]) /\ data[1][k].num >= 0

\* the file is one page holding one GSTIN-like token, and it was read
OneToken ==
    /\ Len(pages) = 1
    /\ pages[1] # None
    /\ pages[1][1] \in GstinTokens

\* what C8 says of a token and of what a matcher returned for it
AcceptsOnlyValid(token, found) ==
    /\ token = ValidGstin => found = token
    /\ Len(token) # Len(ValidGstin) => found = ""
    /\ (Len(token) = Len(ValidGstin) /\ CharAt(token, 14) = "z") => found = ""

\* C8: the matcher accepts 27ABCDE1234F1Z5 and rejects every token of another
\* length and every 15-character token with a lowercase z at position 14.
C8_GstinMatcher ==
    OneToken =>
        /\ (data # None /\ data[1].Raw_Text_Extracted # "") =>
               AcceptsOnlyValid(pages[1][1], data[1].GSTIN)
        /\ summary # None => AcceptsOnlyValid(pages[1][1], summary[1].supplier_gstin)

=============================================================================
